---- MODULE Spec2Model ----
(***************************************************************************)
(* Knowledge base engine of the RAG chatbot (src/models/knowledge_base.py):*)
(* chunking, bulk embedding, cache validation, rebuild and add_document.   *)
(*                                                                         *)
(* A text is a sequence of one-character strings.  A chunk is a text too:  *)
(* the words of a window joined by single spaces.                          *)
(***************************************************************************)
EXTENDS Integers, Sequences, FiniteSets, TLC

(***************************************************************************)
(* Bounds of the model.                                                    *)
(***************************************************************************)
\* longest enumerated raw text, in characters
MaxTextLen == 6
\* largest chunk_size / chunk_overlap a configuration is drawn from
MaxChunkSize == 3

\* characters of the enumerated raw texts
Letters == {"a", "b"}
\* characters matched by the regular expression \s and dropped by str.split()
Whitespace == {" ", "\n"}

Min(a, b) == IF a <= b THEN a ELSE b

(***************************************************************************)
(* The chunker, KnowledgeBase._chunk_text.                                 *)
(***************************************************************************)
\* re.sub(r'\s+', ' ', text): every maximal run of whitespace becomes one space
RECURSIVE CollapseWhitespace(_)
CollapseWhitespace(text) ==
    IF text = <<>> THEN <<>>
    ELSE IF Head(text) \in Whitespace
         THEN IF Len(text) > 1 /\ text[2] \in Whitespace
              THEN CollapseWhitespace(Tail(text))
              ELSE <<" ">> \o CollapseWhitespace(Tail(text))
         ELSE <<Head(text)>> \o CollapseWhitespace(Tail(text))

\* str.strip(): leading and trailing whitespace removed
RECURSIVE Strip(_)
Strip(text) ==
    IF text = <<>> THEN <<>>
    ELSE IF Head(text) \in Whitespace THEN Strip(Tail(text))
    ELSE IF text[Len(text)] \in Whitespace THEN Strip(SubSeq(text, 1, Len(text) - 1))
    ELSE text

\* str.split(): the maximal runs of non-whitespace characters, in order
RECURSIVE SplitFrom(_, _)
SplitFrom(text, word) ==
    IF text = <<>> THEN (IF word = <<>> THEN <<>> ELSE <<word>>)
    ELSE IF Head(text) \in Whitespace
         THEN (IF word = <<>> THEN <<>> ELSE <<word>>) \o SplitFrom(Tail(text), <<>>)
         ELSE SplitFrom(Tail(text), Append(word, Head(text)))

Split(text) == SplitFrom(text, <<>>)

\* ' '.join(words)
RECURSIVE Join(_)
Join(words) ==
    IF words = <<>> THEN <<>>
    ELSE IF Len(words) = 1 THEN words[1]
    ELSE words[1] \o <<" ">> \o Join(Tail(words))

\* range(0, n, step) raises ValueError for step = 0
RangeRaises(step) == step = 0

\* range(0, n, step) as the list of its values (empty for a negative step)
RECURSIVE RangeFrom(_, _, _)
RangeFrom(i, n, step) ==
    IF step <= 0 \/ i >= n THEN <<>>
    ELSE <<i>> \o RangeFrom(i + step, n, step)

\* a loop "while i < n" in place of the range iterator
WhileHasNext(i, n, step) == i < n

\* whether the iterator of range(0, n, step) yields a value at i
RangeHasNext(i, n, step) == IF step > 0 THEN i < n ELSE i > n

\* a variant one word short: words[i : i + size - 1]
SliceShort(words, i, size) == SubSeq(words, i + 1, Min(i + size - 1, Len(words)))

\* words[i : i + size] with 0-based i >= 0; a negative stop counts from the
\* end of the list
Slice(words, i, size) ==
    LET stop == IF i + size < 0 THEN Len(words) + i + size ELSE Min(i + size, Len(words))
    IN  SubSeq(words, i + 1, stop)

\* a chunker that stops at the last full window start (i + overlap < n)
ChunkTextNoTail(text, size, overlap) ==
    LET words == Split(Strip(CollapseWhitespace(text)))
        starts == RangeFrom(0, Len(words) - overlap, size - overlap)
    IN  [k \in 1..Len(starts) |-> Join(Slice(words, starts[k], size))]

\* a chunker whose windows advance by the whole chunk_size
ChunkTextNoOverlap(text, size, overlap) ==
    LET words == Split(Strip(CollapseWhitespace(text)))
        starts == RangeFrom(0, Len(words), size)
    IN  [k \in 1..Len(starts) |-> Join(Slice(words, starts[k], size))]

\* _chunk_text raises exactly when range() does
chunk_text_raises(size, overlap) == RangeRaises(size - overlap)

\* a variant that leaves out the window starting at word 0
WindowStartsAfterFirst(n, size, overlap) ==
    RangeFrom(size - overlap, n, size - overlap)

\* the window starts _chunk_text visits for a text of n words
WindowStarts(n, size, overlap) == RangeFrom(0, n, size - overlap)

\* _chunk_text(text) under chunk_size = size, chunk_overlap = overlap
chunk_text(text, size, overlap) ==
    LET ChunksOf(words) ==
            LET starts == WindowStarts(Len(words), size, overlap)
                all    == [k \in 1..Len(starts) |->
                              Join(Slice(words, starts[k], size))]
            IN  SelectSeq(all, LAMBDA chunk : chunk # <<>>)
    IN  CHOOSE chunks \in {ChunksOf(words) :
                              words \in {Split(Strip(CollapseWhitespace(text)))}} : TRUE

(***************************************************************************)
(* The embedding client, KnowledgeBase._generate_embeddings.               *)
(***************************************************************************)
\* texts per call of the embedding service (batch_size, 20 in the source)
batch_size == 2
\* dimension of a vector of the model (1536 in the source)
EmbeddingDim == 2

\* [0] * 1536, the vector substituted for every text of a failed batch
ZeroVector == [i \in 1..EmbeddingDim |-> 0]

\* item['embedding'] of the service's response for one text: some nonzero
\* vector that depends on the text only
ServiceVector(text) ==
    [i \in 1..EmbeddingDim |-> IF i = 1 THEN Len(text) ELSE Len(Split(text))]

\* the batches range(0, len(texts), batch_size) visits, numbered from 0
BatchIndexes(n) == {b \in 0..n : b * batch_size < n}

\* a variant in which a failed batch contributes no vector at all
RECURSIVE GenerateDroppingFailed(_, _, _)
GenerateDroppingFailed(texts, i, failing) ==
    IF i >= Len(texts) THEN <<>>
    ELSE LET batch == SubSeq(texts, i + 1, Min(i + batch_size, Len(texts)))
         IN  (IF (i \div batch_size) \in failing
              THEN <<>>
              ELSE [k \in 1..Len(batch) |-> ServiceVector(batch[k])])
             \o GenerateDroppingFailed(texts, i + batch_size, failing)

\* a variant that gives up after the first failed batch
RECURSIVE GenerateStoppingAtFailure(_, _, _)
GenerateStoppingAtFailure(texts, i, failing) ==
    IF i >= Len(texts) THEN <<>>
    ELSE LET batch == SubSeq(texts, i + 1, Min(i + batch_size, Len(texts)))
         IN  IF (i \div batch_size) \in failing
             THEN [k \in 1..Len(batch) |-> ZeroVector]
             ELSE [k \in 1..Len(batch) |-> ServiceVector(batch[k])]
                  \o GenerateStoppingAtFailure(texts, i + batch_size, failing)

\* the loop of _generate_embeddings from offset i on; failing is the set of
\* batch numbers for which openai.Embedding.create raises
RECURSIVE GenerateFrom(_, _, _)
GenerateFrom(texts, i, failing) ==
    IF i >= Len(texts) THEN <<>>
    ELSE LET batch == SubSeq(texts, i + 1, Min(i + batch_size, Len(texts)))
         IN  (IF (i \div batch_size) \in failing
              THEN [k \in 1..Len(batch) |-> ZeroVector]
              ELSE [k \in 1..Len(batch) |-> ServiceVector(batch[k])])
             \o GenerateFrom(texts, i + batch_size, failing)

generate_embeddings(texts, failing) == GenerateFrom(texts, 0, failing)

\* number of calls of the embedding service _generate_embeddings makes
EmbeddingCalls(texts) == Cardinality(BatchIndexes(Len(texts)))

(***************************************************************************)
(* The similarity engine: KnowledgeBase._cosine_similarity and search.     *)
(*                                                                         *)
(* A similarity x is held exactly, as the fraction num/den = sgn(x) * x^2  *)
(* (den > 0): the map x -> sgn(x) * x^2 is strictly increasing, so the     *)
(* order of the fractions is the order of the similarities, and the        *)
(* similarity is 0 exactly when num = 0.  The threshold is held the same   *)
(* way.                                                                    *)
(***************************************************************************)
\* np.dot(vec1, vec2) over the first n components
RECURSIVE DotTo(_, _, _)
DotTo(vec1, vec2, n) ==
    IF n = 0 THEN 0 ELSE vec1[n] * vec2[n] + DotTo(vec1, vec2, n - 1)

\* np.dot(vec1, vec2)
Dot(vec1, vec2) == DotTo(vec1, vec2, Len(vec1))

Sign(x) == IF x > 0 THEN 1 ELSE IF x < 0 THEN -1 ELSE 0

\* the number 1 as a similarity
FullSimilarity == [num |-> 1, den |-> 1]

\* the number 0 as a similarity
ZeroSimilarity == [num |-> 0, den |-> 1]

\* _cosine_similarity(vec1, vec2): 0 when a norm is 0, else
\* dot / (norm1 * norm2)
cosine_similarity(vec1, vec2) ==
    LET dot_product == Dot(vec1, vec2)
        norm1sq     == Dot(vec1, vec1)
        norm2sq     == Dot(vec2, vec2)
    IN  IF norm1sq = 0 \/ norm2sq = 0 THEN ZeroSimilarity
        ELSE [num |-> Sign(dot_product) * dot_product * dot_product,
              den |-> norm1sq * norm2sq]

\* a >= b, a > b and a = b for similarities
Geq(a, b) == a.num * b.den >= b.num * a.den
Gt(a, b) == a.num * b.den > b.num * a.den
Same(a, b) == a.num * b.den = b.num * a.den

\* lines 211-214: the (index, similarity) pairs that reach the threshold, in
\* index order; indexes count from 1
Qualifying(embs, query_embedding, threshold) ==
    SelectSeq([i \in 1..Len(embs) |->
                  [idx |-> i, similarity |-> cosine_similarity(query_embedding, embs[i])]],
              LAMBDA pair : Geq(pair.similarity, threshold))

\* a variant that puts the pair in front of the entries equal to it
RECURSIVE InsertBeforeEqual(_, _)
InsertBeforeEqual(pair, sorted) ==
    IF sorted = <<>> THEN <<pair>>
    ELSE IF Gt(Head(sorted).similarity, pair.similarity)
         THEN <<Head(sorted)>> \o InsertBeforeEqual(pair, Tail(sorted))
         ELSE <<pair>> \o sorted

\* pair put into a list sorted by descending similarity, behind every entry
\* that is not smaller
RECURSIVE InsertDescending(_, _)
InsertDescending(pair, sorted) ==
    IF sorted = <<>> THEN <<pair>>
    ELSE IF Geq(Head(sorted).similarity, pair.similarity)
         THEN <<Head(sorted)>> \o InsertDescending(pair, Tail(sorted))
         ELSE <<pair>> \o sorted

\* a variant that leaves the pairs in index order
SortSkipped(pairs) == pairs

\* line 217, list.sort(key=similarity, reverse=True): a stable sort, equal
\* similarities keep the order they had
RECURSIVE SortDescendingInto(_, _)
SortDescendingInto(pairs, sorted) ==
    IF pairs = <<>> THEN sorted
    ELSE SortDescendingInto(Tail(pairs), InsertDescending(Head(pairs), sorted))

SortDescending(pairs) == SortDescendingInto(pairs, <<>>)

\* similarities[:top_k]
TopK(sorted, top_k) ==
    IF top_k >= 0 THEN SubSeq(sorted, 1, Min(top_k, Len(sorted)))
    ELSE SubSeq(sorted, 1, Len(sorted) + top_k)

\* a variant that cuts the list to top_k before it sorts it
SearchRankedCutFirst(docs, embs, metas, query_embedding, threshold, top_k) ==
    LET similarities == Qualifying(embs, query_embedding, threshold)
        top          == SortDescending(TopK(similarities, top_k))
    IN  [k \in 1..Len(top) |->
            [text  |-> docs[top[k].idx],
             meta  |-> metas[top[k].idx],
             score |-> top[k].similarity]]

\* lines 209-228 of search, once the query has its embedding
search_ranked(docs, embs, metas, query_embedding, threshold, top_k) ==
    LET ResultsOf(top) ==
            [k \in 1..Len(top) |->
                [text  |-> docs[top[k].idx],
                 meta  |-> metas[top[k].idx],
                 score |-> top[k].similarity]]
    IN  CHOOSE results \in
            {ResultsOf(top) :
                top \in {TopK(similarities, top_k) :
                    similarities \in {SortDescending(pairs) :
                        pairs \in {Qualifying(embs, query_embedding, threshold)}}}} : TRUE

\* a variant that asks for the query's embedding before it looks at the
\* Snapshot
SearchEmbedsFirst(docs, embs, metas, raises, query_embedding, threshold, top_k) ==
    IF raises \/ docs = <<>>
    THEN [outcome |-> IF raises THEN "embed_failed" ELSE "empty",
          calls |-> 1, result |-> <<>>]
    ELSE [outcome |-> "ranked", calls |-> 1,
          result  |-> search_ranked(docs, embs, metas, query_embedding,
                                    threshold, top_k)]

\* a variant that ranks with an all-zero query vector when the call raises
SearchWithZeroQuery(docs, embs, metas, raises, query_embedding, threshold, top_k) ==
    IF docs = <<>>
    THEN [outcome |-> "empty", calls |-> 0, result |-> <<>>]
    ELSE [outcome |-> IF raises THEN "embed_failed" ELSE "ranked", calls |-> 1,
          result  |-> search_ranked(docs, embs, metas,
                                    IF raises THEN ZeroVector ELSE query_embedding,
                                    threshold, top_k)]

\* search(query, top_k): raises says whether the service call for the query
\* raises, query_embedding is the vector it answers with otherwise.  The
\* value is how the call returned, the service calls it made and its list.
search(docs, embs, metas, raises, query_embedding, threshold, top_k) ==
    IF docs = <<>>
    THEN [outcome |-> "empty", calls |-> 0, result |-> <<>>]
    ELSE IF raises
         THEN [outcome |-> "embed_failed", calls |-> 1, result |-> <<>>]
         ELSE [outcome |-> "ranked", calls |-> 1,
               result  |-> search_ranked(docs, embs, metas, query_embedding,
                                         threshold, top_k)]

(***************************************************************************)
(* The knowledge-base directory and the cache artifact.                    *)
(***************************************************************************)
\* files that can be in the knowledge-base directory
Paths == {"notes.txt", "README.MD", "logo.png"}

\* Path.suffix
Suffix(p) ==
    CASE p = "notes.txt" -> ".txt"
      [] p = "README.MD" -> ".MD"
      [] p = "logo.png"  -> ".png"

\* str.lower() of a suffix
Lower(s) == IF s = ".MD" THEN ".md" ELSE s

supported_extensions == {".txt", ".pdf", ".docx", ".doc", ".csv", ".json", ".md"}

\* file_path.suffix.lower() in supported_extensions
IsSupported(p) == Lower(Suffix(p)) \in supported_extensions

\* str(file_path) of a file of the directory
Source(p) == "knowledge_base/" \o p

\* the metadata entry _process_all_documents appends for a chunk of file p
FileMetadata(p) == [source |-> Source(p), filename |-> p, type |-> Suffix(p)]

\* _get_file_signatures over the directory d (a function path -> file)
get_file_signatures(d) ==
    [p \in DOMAIN d |-> [size |-> Len(d[p].text), mtime |-> d[p].mtime]]

\* the cache artifact: absent, unreadable (truncated by a failed write), or
\* the pickled dictionary
NoCache == [state |-> "absent", documents |-> <<>>, embeddings |-> <<>>,
            metadata |-> <<>>, file_signatures |-> <<>>]
CorruptCache == [NoCache EXCEPT !.state = "corrupt"]

\* a variant that stores the documents and the signatures only
PickledDocumentsOnly(docs, embs, metas, sigs) ==
    [state |-> "ok", documents |-> docs, embeddings |-> <<>>,
     metadata |-> <<>>, file_signatures |-> sigs]

\* pickle.dump of the four entries
Pickled(docs, embs, metas, sigs) ==
    [state |-> "ok", documents |-> docs, embeddings |-> embs,
     metadata |-> metas, file_signatures |-> sigs]

\* outcomes of open(cache_file, 'wb') + pickle.dump: written; open raised and
\* the artifact is as before; the dump raised after open truncated the file
WriteOutcomes == {"ok", "fail_keep", "fail_truncate"}

\* a variant in which a write that reports no error leaves the artifact as
\* it was
CacheKeptByWrite(cache0, blob, outcome) ==
    IF outcome = "fail_truncate" THEN CorruptCache ELSE cache0

\* the artifact after a write attempt of blob
CacheAfterWrite(cache0, blob, outcome) ==
    CASE outcome = "ok"            -> blob
      [] outcome = "fail_keep"     -> cache0
      [] outcome = "fail_truncate" -> CorruptCache

\* a variant that accepts a cache whose paths are the current ones
CacheIsFreshPathsOnly(cache0, current_files, read_ok) ==
    /\ cache0.state = "ok"
    /\ read_ok
    /\ DOMAIN cache0.file_signatures = DOMAIN current_files

\* a variant that accepts every artifact it can read
CacheIsFreshWhenReadable(cache0, current_files, read_ok) ==
    /\ cache0.state = "ok"
    /\ read_ok

\* lines 48-57: the artifact exists, pickle.load succeeds and the stored
\* signatures equal the current ones
CacheIsFresh(cache0, current_files, read_ok) ==
    /\ cache0.state = "ok"
    /\ read_ok
    /\ cache0.file_signatures = current_files

(***************************************************************************)
(* Rebuild, load and add_document as functions of the state they read.     *)
(***************************************************************************)
\* the three lists of an instance
Lists(docs, embs, metas) ==
    [documents |-> docs, embeddings |-> embs, metadata |-> metas]

\* a variant in which the sort is done in place on the stored vectors, which
\* come out in reverse order
ListsReorderedBySearch(docs, embs, metas) ==
    Lists(docs, [k \in 1..Len(embs) |-> embs[Len(embs) + 1 - k]], metas)

\* the three lists when search returns: lines 193-228 assign no attribute
\* of the instance and call no mutating method of the lists; the sort of
\* line 217 works on the local list similarities
ListsAfterSearch(docs, embs, metas) == Lists(docs, embs, metas)

\* a variant in which a file that cannot be read still yields its text
ExtractIgnoringFailure(d, p, failed) == d[p].text

\* _extract_text for .txt / .md: the file's text, "" when reading raises
extract_text(d, p, failed) == IF p \in failed THEN <<>> ELSE d[p].text

\* what the loop body of _process_all_documents appends for file p: one
\* (chunk, metadata) pair per chunk; nothing for an unsupported file and
\* nothing when _chunk_text raises (the except of line 109 swallows it)
FileEntries(d, p, failed, size, overlap) ==
    IF ~IsSupported(p) \/ chunk_text_raises(size, overlap) THEN <<>>
    ELSE LET chunks == chunk_text(extract_text(d, p, failed), size, overlap)
         IN  [k \in 1..Len(chunks) |-> [chunk |-> chunks[k], meta |-> FileMetadata(p)]]

\* the pairs appended by the whole loop, files visited in the order rglob
\* yields them
RECURSIVE ScanEntries(_, _, _, _, _)
ScanEntries(d, order, failed, size, overlap) ==
    IF order = <<>> THEN <<>>
    ELSE FileEntries(d, Head(order), failed, size, overlap)
         \o ScanEntries(d, Tail(order), failed, size, overlap)

\* lines 100-115 of _process_all_documents: the scanned entries are appended to
\* the lists the instance holds, then every held document is embedded
process_all_documents(docs, embs, metas, entries, failing) ==
    LET docs2  == docs \o [k \in 1..Len(entries) |-> entries[k].chunk]
        metas2 == metas \o [k \in 1..Len(entries) |-> entries[k].meta]
    IN  Lists(docs2,
              IF docs2 # <<>> THEN generate_embeddings(docs2, failing) ELSE embs,
              metas2)

\* a variant of add_document that puts the new entries first
AddInFront(docs, embs, metas, size, overlap, content, meta, failing) ==
    LET chunks == chunk_text(content, size, overlap)
        new_embeddings == generate_embeddings(chunks, failing)
    IN  Lists(chunks \o docs, new_embeddings \o embs,
              [k \in 1..Len(chunks) |-> meta] \o metas)

\* lines 246-252 of add_document when _chunk_text returns: zip() pairs every
\* chunk with its vector, and the three lists grow together
add_document(docs, embs, metas, size, overlap, content, meta, failing) ==
    LET chunks == chunk_text(content, size, overlap)
        new_embeddings == generate_embeddings(chunks, failing)
        n == Min(Len(chunks), Len(new_embeddings))
    IN  Lists(docs \o SubSeq(chunks, 1, n),
              embs \o SubSeq(new_embeddings, 1, n),
              metas \o [k \in 1..n |-> meta])

\* a variant in which a failed write leaves the instance without its lists
ListsLostOnFailedWrite(lists, outcome) ==
    IF outcome = "ok" THEN lists ELSE Lists(<<>>, <<>>, <<>>)

\* the lists of the instance after the write attempt of lines 64-75 and of
\* _save_cache: the with block and the except handler assign no attribute
ListsAfterWrite(lists, outcome) == lists

\* a variant that leaves the artifact as it is
SaveCacheSkipped(cache0, lists, d, outcome) == cache0

\* _save_cache: the lists with the signatures computed at the time of saving
save_cache(cache0, lists, d, outcome) ==
    CacheAfterWrite(cache0,
        Pickled(lists.documents, lists.embeddings, lists.metadata,
                get_file_signatures(d)),
        outcome)

(***************************************************************************)
(* Inputs of the chunker specification.                                    *)
(***************************************************************************)
\* "alpha beta gamma delta"
NotesText ==
    <<"a","l","p","h","a"," ","b","e","t","a"," ",
      "g","a","m","m","a"," ","d","e","l","t","a">>

BoundedTexts ==
    UNION {[1..n -> Letters \cup Whitespace] : n \in 0..MaxTextLen}

ChunkerTexts == BoundedTexts \cup {NotesText}

(***************************************************************************)
(* Bounds and inputs of the knowledge-base specification.                  *)
(***************************************************************************)
\* number of operations (of the instance and on the directory) in a run
MaxSteps == 4
\* longest documents list an operation may leave
MaxDocs == 3
\* the configurations (chunk_size, chunk_overlap) an instance is constructed
\* with: overlapping windows, overlap = size, overlap > size
KbConfigs == {<<2, 1>>, <<2, 2>>, <<1, 2>>}

\* texts a file of the directory can hold: notes.txt "a b" or "a\nb c ",
\* README.MD "d", logo.png some bytes
FileTexts(p) ==
    CASE p = "notes.txt" -> {<<"a", "\n", "b", " ">>}
      [] p = "README.MD" -> {<<"d">>}
      [] p = "logo.png"  -> {<<"#">>}
\* a vector with first component a and every other component b
VectorOf(a, b) == [i \in 1..EmbeddingDim |-> IF i = 1 THEN a ELSE b]

\* the vectors of chunks and queries; the first is the zero vector
SearchVectors ==
    {VectorOf(0, 0), VectorOf(1, 0), VectorOf(0, 1), VectorOf(1, 1), VectorOf(-1, 0)}

\* top_k of the search made by POST /chat
route_top_k == 3

\* contents given to add_document: "x  y" and " \n"
AddContents == {<<"x", " ", " ", "y">>, <<" ", "\n">>}
\* metadata given to add_document
ManualMeta == [source |-> "manual", filename |-> "manual", type |-> "text"]

EmptyDir == [p \in {} |-> [text |-> <<>>, mtime |-> 0]]

\* directory d after file p is written with text t at time now
WithFile(d, p, t, now) ==
    [q \in DOMAIN d \cup {p} |-> IF q = p THEN [text |-> t, mtime |-> now] ELSE d[q]]

\* the supported files of directory d
SupportedIn(d) == {p \in DOMAIN d : IsSupported(p)}

\* the orders in which rglob can yield the supported files of d
Orders(d) ==
    LET S == SupportedIn(d)
        n == Cardinality(S)
    IN  {order \in [1..n -> S] : \A i, j \in 1..n : i # j => order[i] # order[j]}

\* a variant in which a load whose artifact is missing or unreadable goes
\* no further
ReadOutcomesWithoutFailure(cache0) == IF cache0.state = "ok" THEN {TRUE} ELSE {}

\* pickle.load is attempted on an existing artifact only, and raises on a
\* truncated one
ReadOutcomes(cache0) == IF cache0.state = "ok" THEN BOOLEAN ELSE {FALSE}

\* the most documents a scan of directory d can append
ScanGrowth(d, size, overlap) ==
    CHOOSE n \in {Len(ScanEntries(d, order, {}, size, overlap)) :
                    order \in {CHOOSE o \in Orders(d) : TRUE}} : TRUE

NoOp == [op |-> "none", path |-> "none", raised |-> FALSE, calls |-> 0,
         read_ok |-> FALSE, write |-> "none", content |-> <<>>,
         prior_write |-> "none", found |-> 0,
         computed |-> Lists(<<>>, <<>>, <<>>), failed |-> {}, held |-> 0]

VARIABLES
    dir,            \* the knowledge-base directory: path -> [text, mtime]
    clock,          \* the latest modification time handed out
    steps,          \* operations started so far
    cache,          \* the cache artifact knowledge_base.pkl
    kb_state,       \* where the instance is: "Uninitialized", "Ready", or
                    \* inside load_knowledge_base: "Loading" (line 45 done),
                    \* "Rebuilding" (line 62 reached)
    chunk_size,     \* self.chunk_size
    chunk_overlap,  \* self.chunk_overlap
    documents,      \* self.documents
    embeddings,     \* self.embeddings
    metadata,       \* self.metadata
    current_files,  \* the local current_files of load_knowledge_base
    last,           \* the operation running or run last: its path and outcomes
    dir_changed,    \* a file changed since the instance's last load
    last_write,     \* outcome of the latest cache write of the instance,
                    \* "none" while the instance has written nothing
    write_failed,   \* a cache write failed since the lists last came from,
                    \* or went to, the artifact
    persisted,      \* what the latest successful cache write took from
                    \* memory: the three lists and the signatures
    persisted_by,   \* what made that write: "load" or "add" ("none" before)
    ck_pc,          \* chunker run: "call", then "return" or "raise"
    ck_text,        \* the text given to the chunker
    ck_size,        \* its chunk_size
    ck_overlap,     \* its chunk_overlap
    ck_chunks,      \* the list the chunker returned
    ck_i,           \* the loop variable i of line 165 in a step-by-step run
    em_pc,          \* _generate_embeddings run: "call", then "return"
    em_texts,       \* the texts given to it
    em_failing,     \* the batches (numbered from 0) whose service call raises
    em_vectors,     \* the list it returned
    similarity_threshold,  \* self.similarity_threshold
    sr_pc,          \* search run: "call", then "return"
    sr_query,       \* the vector the service answers the query with
    sr_top_k,       \* top_k
    sr_raises,      \* whether the service call for the query raises
    sr_outcome,     \* how search returned: "empty" (line 196),
                    \* "embed_failed" (line 207) or "ranked" (line 228)
    sr_calls,       \* calls of the embedding service made by the search
    sr_result,      \* the list search returned
    mu_op,          \* a mutation run step by step next to a search: "add"
                    \* (add_document) or "rebuild" (_process_all_documents)
    mu_pc,          \* the statement the mutation is at
    mu_todo,        \* the entries it has still to append
    sr_seen         \* the lengths of the three lists as the ranking of a
                    \* search read them, and where the mutation was then

kb_vars == <<dir, clock, steps, cache, kb_state, chunk_size, chunk_overlap,
             documents, embeddings, metadata, current_files, last, dir_changed,
             last_write, write_failed, persisted, persisted_by>>
ck_vars == <<ck_pc, ck_text, ck_size, ck_overlap, ck_chunks, ck_i>>
em_vars == <<em_pc, em_texts, em_failing, em_vectors>>
sr_vars == <<similarity_threshold, sr_pc, sr_query, sr_top_k, sr_raises,
             sr_outcome, sr_calls, sr_result>>
mu_vars == <<mu_op, mu_pc, mu_todo, sr_seen>>
vars == <<kb_vars, ck_vars, em_vars, sr_vars, mu_vars>>

\* the state before any instance is constructed
KbIdle ==
    /\ clock = 0
    /\ steps = 0
    /\ cache = NoCache
    /\ kb_state = "Uninitialized"
    /\ documents = <<>>
    /\ embeddings = <<>>
    /\ metadata = <<>>
    /\ current_files = get_file_signatures(EmptyDir)
    /\ last = NoOp
    /\ dir_changed = FALSE
    /\ last_write = "none"
    /\ write_failed = FALSE
    /\ persisted = NoCache
    /\ persisted_by = "none"

CkIdle ==
    /\ ck_pc = "idle"
    /\ ck_text = <<>>
    /\ ck_size = 1
    /\ ck_overlap = 0
    /\ ck_chunks = <<>>
    /\ ck_i = 0

\* _generate_embeddings is not being run on its own
EmIdle ==
    /\ em_pc = "idle"
    /\ em_texts = <<>>
    /\ em_failing = {}
    /\ em_vectors = <<>>

\* what the ranking of a search read: nothing yet
NotSeen == [documents |-> 0, embeddings |-> 0, metadata |-> 0, at |-> "none"]

\* no mutation is being run step by step
MuIdle ==
    /\ mu_op = "none"
    /\ mu_pc = "idle"
    /\ mu_todo = <<>>
    /\ sr_seen = NotSeen

\* no search is being run; the threshold is the default of line 20
SrIdle ==
    /\ similarity_threshold = [num |-> 49, den |-> 100]
    /\ sr_pc = "idle"
    /\ sr_query = <<>>
    /\ sr_top_k = 3
    /\ sr_raises = FALSE
    /\ sr_outcome = "none"
    /\ sr_calls = 0
    /\ sr_result = <<>>

(***************************************************************************)
(* The chunker specification: one call of _chunk_text on a bounded input.  *)
(***************************************************************************)
ChunkInit ==
    /\ ck_pc = "call"
    /\ ck_text \in ChunkerTexts
    /\ ck_size \in 1..MaxChunkSize
    /\ ck_overlap \in 0..MaxChunkSize
    /\ ck_chunks = <<>>
    /\ ck_i = 0
    /\ dir = EmptyDir
    /\ chunk_size = 1
    /\ chunk_overlap = 0
    /\ KbIdle
    /\ EmIdle
    /\ SrIdle
    /\ MuIdle

ChunkReturn ==
    /\ ck_pc = "call"
    /\ ~chunk_text_raises(ck_size, ck_overlap)
    /\ ck_chunks' = chunk_text(ck_text, ck_size, ck_overlap)
    /\ ck_pc' = "return"
    /\ UNCHANGED <<ck_text, ck_size, ck_overlap, ck_i, kb_vars, em_vars, sr_vars,
                   mu_vars>>

ChunkRaise ==
    /\ ck_pc = "call"
    /\ chunk_text_raises(ck_size, ck_overlap)
    /\ ck_pc' = "raise"
    /\ UNCHANGED <<ck_text, ck_size, ck_overlap, ck_chunks, ck_i, kb_vars, em_vars, sr_vars,
                   mu_vars>>

ChunkNext == ChunkReturn \/ ChunkRaise

SpecChunk == ChunkInit /\ [][ChunkNext]_vars

(***************************************************************************)
(* The chunker step by step: the loop of lines 165-168 taken one iteration *)
(* at a time, for every integer pair (chunk_size, chunk_overlap) of a      *)
(* bounded range, zero and negative values and chunk_overlap >= chunk_size *)
(* included.                                                               *)
(***************************************************************************)
\* longest text of a step-by-step run, in characters
MaxLoopTextLen == 4

\* largest chunk_size and chunk_overlap of a step-by-step run
MaxLoopSize == 2

LoopTexts == {text \in BoundedTexts : Len(text) <= MaxLoopTextLen}

LoopSizes == (0 - 1)..MaxLoopSize

\* words of line 162
LoopWords == Split(Strip(CollapseWhitespace(ck_text)))

LoopInit ==
    /\ ck_pc = "call"
    /\ ck_text \in LoopTexts
    /\ ck_size \in LoopSizes
    /\ ck_overlap \in LoopSizes
    /\ ck_chunks = <<>>
    /\ ck_i = 0
    /\ dir = EmptyDir
    /\ chunk_size = 1
    /\ chunk_overlap = 0
    /\ KbIdle
    /\ EmIdle
    /\ SrIdle
    /\ MuIdle

\* lines 159-165: the text is normalised and split, the range is built
LoopEnter ==
    /\ ck_pc = "call"
    /\ ck_pc' = IF RangeRaises(ck_size - ck_overlap) THEN "raise" ELSE "loop"
    /\ UNCHANGED <<ck_text, ck_size, ck_overlap, ck_chunks, ck_i, kb_vars, em_vars, sr_vars,
                   mu_vars>>

\* lines 165-168: one iteration
LoopIterate ==
    /\ ck_pc = "loop"
    /\ RangeHasNext(ck_i, Len(LoopWords), ck_size - ck_overlap)
    /\ \E chunk \in {Join(Slice(LoopWords, ck_i, ck_size))} :
         ck_chunks' = IF chunk # <<>> THEN Append(ck_chunks, chunk) ELSE ck_chunks
    /\ ck_i' = ck_i + (ck_size - ck_overlap)
    /\ UNCHANGED <<ck_pc, ck_text, ck_size, ck_overlap, kb_vars, em_vars, sr_vars,
                   mu_vars>>

\* line 170: the range is exhausted
LoopExit ==
    /\ ck_pc = "loop"
    /\ ~RangeHasNext(ck_i, Len(LoopWords), ck_size - ck_overlap)
    /\ ck_pc' = "return"
    /\ UNCHANGED <<ck_text, ck_size, ck_overlap, ck_chunks, ck_i, kb_vars, em_vars, sr_vars,
                   mu_vars>>

LoopNext == LoopEnter \/ LoopIterate \/ LoopExit

SpecLoop == LoopInit /\ [][LoopNext]_vars

\* a running call takes its next step
LoopAdvance ==
    /\ ck_pc \in {"call", "loop"}
    /\ ck_pc' \in {"loop", "return", "raise"}
    /\ ck_i' \in 0..(MaxLoopTextLen + MaxLoopSize + 2)

\* the interpreter keeps running a call that has a next step
SpecLoopLive == SpecLoop /\ WF_<<ck_pc, ck_i>>(LoopAdvance)

(***************************************************************************)
(* The embedding client on its own: one call of _generate_embeddings on    *)
(* any list of texts, with any set of batches whose service call raises.   *)
(***************************************************************************)
\* longest list of texts given to _generate_embeddings
MaxTexts == 5

\* the texts the lists are made of: "a" and "a b"
EmbedTexts == {<<"a">>, <<"a", " ", "b">>}

\* the lists of texts
TextLists == UNION {[1..n -> EmbedTexts] : n \in 0..MaxTexts}

EmbedInit ==
    /\ em_pc = "call"
    /\ em_texts \in TextLists
    /\ em_failing \in SUBSET BatchIndexes(Len(em_texts))
    /\ em_vectors = <<>>
    /\ dir = EmptyDir
    /\ chunk_size = 1
    /\ chunk_overlap = 0
    /\ KbIdle
    /\ CkIdle
    /\ SrIdle
    /\ MuIdle

\* lines 174-191: the loop runs over every batch and the list is returned;
\* the except of line 186 catches whatever the service call raises
EmbedReturn ==
    /\ em_pc = "call"
    /\ em_vectors' = generate_embeddings(em_texts, em_failing)
    /\ em_pc' = "return"
    /\ UNCHANGED <<em_texts, em_failing, kb_vars, ck_vars, sr_vars, mu_vars>>

EmbedNext == EmbedReturn

SpecEmbed == EmbedInit /\ [][EmbedNext]_vars

(***************************************************************************)
(* The knowledge-base specification: one instance at a time over a         *)
(* directory and a cache artifact that outlive it.  chunk_size and         *)
(* chunk_overlap are the deployment's configuration (src/config.py), which *)
(* every instance is constructed with.  Requests are served one at a time  *)
(* (spec section 5), and the directory changes between operations.         *)
(***************************************************************************)
Init ==
    /\ dir \in {EmptyDir, WithFile(EmptyDir, "notes.txt", <<"a", "\n", "b", " ">>, 0)}
    /\ \E cfg \in KbConfigs : chunk_size = cfg[1] /\ chunk_overlap = cfg[2]
    /\ KbIdle
    /\ CkIdle
    /\ EmIdle
    /\ SrIdle
    /\ MuIdle

\* no operation of the instance is running
Idle == kb_state \in {"Uninitialized", "Ready"}

\* every operation counts as one step of the run
Step ==
    /\ steps < MaxSteps
    /\ steps' = steps + 1

\* a rebuild of directory d on top of n held documents stays within MaxDocs,
\* or the artifact is fresh and the load can take the cache-hit path
LoadFits(d, n) ==
    \/ n + ScanGrowth(d, chunk_size, chunk_overlap) <= MaxDocs
    \/ CacheIsFresh(cache, get_file_signatures(d), TRUE)

\* lines 39-45 of load_knowledge_base, entered by operation op on directory
\* d with the lists docs0, embs0, metas0
BeginLoad(op, d, docs0, embs0, metas0) ==
    /\ LoadFits(d, Len(docs0))
    /\ kb_state' = "Loading"
    /\ documents' = docs0
    /\ embeddings' = embs0
    /\ metadata' = metas0
    /\ current_files' = get_file_signatures(d)
    /\ last' = [NoOp EXCEPT !.op = op,
                            !.prior_write = IF op = "init" THEN last_write ELSE "none"]
    /\ last_write' = IF op = "init" THEN "none" ELSE last_write
    /\ UNCHANGED <<cache, write_failed, persisted, persisted_by, chunk_size, chunk_overlap,
                   ck_vars, em_vars, sr_vars, mu_vars>>

\* KnowledgeBase(...): a cold start, lines 21-35
Initialize ==
    /\ Step
    /\ Idle
    /\ BeginLoad("init", dir, <<>>, <<>>, <<>>)
    /\ UNCHANGED <<dir, clock, dir_changed>>

\* load_knowledge_base() called on the running instance
Reload ==
    /\ Step
    /\ kb_state = "Ready"
    /\ BeginLoad("reload", dir, documents, embeddings, metadata)
    /\ UNCHANGED <<dir, clock, dir_changed>>

\* POST /upload, lines 78-82 of chat_routes.py: the file is saved into the
\* directory, then the instance reloads
Upload ==
    /\ Step
    /\ kb_state = "Ready"
    /\ \E p \in Paths : \E t \in FileTexts(p) :
         /\ dir' = WithFile(dir, p, t, clock + 1)
         /\ BeginLoad("reload", WithFile(dir, p, t, clock + 1),
                      documents, embeddings, metadata)
    /\ clock' = clock + 1
    /\ dir_changed' = TRUE

\* lines 48-59: the cache is read and validated; on a hit the lists are
\* replaced and the load returns
CheckCache ==
    /\ kb_state = "Loading"
    /\ \E read_ok \in ReadOutcomes(cache) :
         IF CacheIsFresh(cache, current_files, read_ok)
         THEN /\ documents' = cache.documents
              /\ embeddings' = cache.embeddings
              /\ metadata' = cache.metadata
              /\ kb_state' = "Ready"
              /\ last' = [last EXCEPT !.path = "hit", !.read_ok = read_ok]
              /\ write_failed' = FALSE
              /\ current_files' = <<>>
              /\ dir_changed' = FALSE
         ELSE /\ Len(documents) + ScanGrowth(dir, chunk_size, chunk_overlap) <= MaxDocs
              /\ kb_state' = "Rebuilding"
              /\ last' = [last EXCEPT !.path = "miss", !.read_ok = read_ok]
              /\ UNCHANGED <<documents, embeddings, metadata, write_failed,
                             current_files, dir_changed>>
    /\ UNCHANGED <<dir, clock, steps, cache, chunk_size, chunk_overlap,
                   last_write, persisted, persisted_by, ck_vars, em_vars, sr_vars,
                   mu_vars>>

\* lines 61-75: _process_all_documents, for every order rglob can yield,
\* every set of files whose extraction raises and every set of batches whose
\* service call raises; then the lists are written to the artifact with the
\* signatures taken at line 45, and the load returns
Rebuild ==
    /\ kb_state = "Rebuilding"
    /\ \E order \in Orders(dir), failed \in SUBSET SupportedIn(dir) :
        \E entries \in {ScanEntries(dir, order, failed, chunk_size, chunk_overlap)} :
        \E failing \in SUBSET BatchIndexes(Len(documents) + Len(entries)) :
        \E r \in {process_all_documents(documents, embeddings, metadata, entries,
                                        failing)} :
        \E write \in WriteOutcomes :
          /\ documents' = ListsAfterWrite(r, write).documents
          /\ embeddings' = ListsAfterWrite(r, write).embeddings
          /\ metadata' = ListsAfterWrite(r, write).metadata
          /\ cache' = CacheAfterWrite(cache,
                         Pickled(r.documents, r.embeddings, r.metadata, current_files),
                         write)
          /\ last' = [last EXCEPT !.calls = EmbeddingCalls(r.documents),
                                  !.write = write, !.computed = r,
                                  !.failed = failed, !.held = Len(documents)]
          /\ last_write' = write
          /\ write_failed' = (write # "ok")
          /\ persisted' = IF write = "ok"
                          THEN [state |-> "ok", documents |-> r.documents,
                                embeddings |-> r.embeddings, metadata |-> r.metadata,
                                file_signatures |-> current_files]
                          ELSE persisted
          /\ persisted_by' = IF write = "ok" THEN "load" ELSE persisted_by
    /\ kb_state' = "Ready"
    /\ current_files' = <<>>
    /\ dir_changed' = FALSE
    /\ UNCHANGED <<dir, clock, steps, chunk_size, chunk_overlap, ck_vars, em_vars, sr_vars,
                   mu_vars>>

\* add_document(content, metadata), lines 246-255: the chunks and their
\* vectors are appended, then _save_cache writes the lists with the
\* signatures of the directory as it is now
AddDocument ==
    /\ Step
    /\ kb_state = "Ready"
    /\ ~chunk_text_raises(chunk_size, chunk_overlap)
    /\ \E content \in AddContents :
        \E chunks \in {chunk_text(content, chunk_size, chunk_overlap)} :
        \E failing \in SUBSET BatchIndexes(Len(chunks)) :
        \E r \in {add_document(documents, embeddings, metadata, chunk_size,
                               chunk_overlap, content, ManualMeta, failing)} :
        \E write \in WriteOutcomes :
          /\ Len(r.documents) <= MaxDocs
          /\ documents' = ListsAfterWrite(r, write).documents
          /\ embeddings' = ListsAfterWrite(r, write).embeddings
          /\ metadata' = ListsAfterWrite(r, write).metadata
          /\ cache' = save_cache(cache, r, dir, write)
          /\ last' = [NoOp EXCEPT !.op = "add", !.content = content,
                                  !.calls = EmbeddingCalls(chunks), !.write = write,
                                  !.computed = r]
          /\ last_write' = write
          /\ write_failed' = (write # "ok")
          /\ persisted' = IF write = "ok"
                          THEN [state |-> "ok", documents |-> r.documents,
                                embeddings |-> r.embeddings, metadata |-> r.metadata,
                                file_signatures |-> get_file_signatures(dir)]
                          ELSE persisted
          /\ persisted_by' = IF write = "ok" THEN "add" ELSE persisted_by
    /\ UNCHANGED <<dir, clock, kb_state, chunk_size, chunk_overlap, current_files,
                   dir_changed, ck_vars, em_vars, sr_vars, mu_vars>>

\* add_document(content, metadata) raises: range() in _chunk_text has step 0
AddDocumentRaises ==
    /\ Step
    /\ kb_state = "Ready"
    /\ chunk_text_raises(chunk_size, chunk_overlap)
    /\ \E content \in AddContents :
         last' = [NoOp EXCEPT !.op = "add", !.raised = TRUE, !.content = content]
    /\ UNCHANGED <<dir, clock, cache, kb_state, chunk_size, chunk_overlap,
                   documents, embeddings, metadata, current_files, dir_changed,
                   last_write, write_failed, persisted, persisted_by, ck_vars, em_vars,
                   sr_vars,
                   mu_vars>>

\* search(query, top_k=3) on the Ready instance, for every embedding of the
\* query and for a service call that raises: it reads the three lists and
\* returns; last keeps the number of service calls and of entries returned
Search ==
    /\ Step
    /\ kb_state = "Ready"
    /\ \E query_embedding \in SearchVectors, raises \in BOOLEAN :
        \E r \in {search(documents, embeddings, metadata, raises, query_embedding,
                         similarity_threshold, route_top_k)} :
          last' = [NoOp EXCEPT !.op = "search", !.calls = r.calls,
                                  !.found = Len(r.result)]
    /\ documents' = ListsAfterSearch(documents, embeddings, metadata).documents
    /\ embeddings' = ListsAfterSearch(documents, embeddings, metadata).embeddings
    /\ metadata' = ListsAfterSearch(documents, embeddings, metadata).metadata
    /\ UNCHANGED <<dir, clock, cache, kb_state, chunk_size, chunk_overlap,
                   current_files, dir_changed, last_write, write_failed, persisted,
                   persisted_by,
                   ck_vars, em_vars, sr_vars, mu_vars>>

\* what an operation on the directory leaves alone
EnvFrame ==
    /\ last' = [NoOp EXCEPT !.op = "env"]
    /\ dir_changed' = TRUE
    /\ UNCHANGED <<cache, kb_state, chunk_size, chunk_overlap, documents,
                   embeddings, metadata, current_files, last_write, write_failed,
                   persisted, persisted_by,
                   ck_vars, em_vars, sr_vars, mu_vars>>

\* a file is written into the directory from outside
WriteFile ==
    /\ Step
    /\ Idle
    /\ \E p \in Paths : \E t \in FileTexts(p) : dir' = WithFile(dir, p, t, clock + 1)
    /\ clock' = clock + 1
    /\ EnvFrame

\* a file's modification time changes, its content does not
TouchFile ==
    /\ Step
    /\ Idle
    /\ \E p \in DOMAIN dir : dir' = [dir EXCEPT ![p].mtime = clock + 1]
    /\ clock' = clock + 1
    /\ EnvFrame

\* a file is removed from the directory
RemoveFile ==
    /\ Step
    /\ Idle
    /\ \E p \in DOMAIN dir : dir' = [q \in DOMAIN dir \ {p} |-> dir[q]]
    /\ UNCHANGED clock
    /\ EnvFrame

Next ==
    \/ Initialize
    \/ Reload
    \/ Upload
    \/ CheckCache
    \/ Rebuild
    \/ AddDocument
    \/ AddDocumentRaises
    \/ Search
    \/ WriteFile
    \/ TouchFile
    \/ RemoveFile

Spec == Init /\ [][Next]_vars

\* the next step of a load under way: from Loading and from Rebuilding the
\* only steps of Next are CheckCache and Rebuild, which change kb_state
LoadAdvance ==
    /\ kb_state \in {"Loading", "Rebuilding"}
    /\ kb_state' \in {"Rebuilding", "Ready"}

\* a load that has been entered runs on: the cache check and the rebuild
\* wait for nothing but the calls they make, each of which returns or raises
SpecLive == Spec /\ WF_kb_state(LoadAdvance)

(***************************************************************************)
(* Search on its own: one call of search on any index-aligned Snapshot of  *)
(* a Ready instance, for any answer of the embedding service to the query. *)
(***************************************************************************)
\* most chunks of a Snapshot that is searched
MaxSnapshot == 3
\* largest top_k
MaxTopK == 4

\* thresholds 0.7 (the default), 0 and -0.8
Thresholds == {[num |-> 49, den |-> 100], [num |-> 0, den |-> 1], [num |-> -16, den |-> 25]}

\* the k-th chunk of a searched Snapshot and its metadata
SnapshotText(k) == <<"c", ToString(k)>>
SnapshotMeta(k) == [source |-> "manual", filename |-> "doc" \o ToString(k), type |-> "text"]

SearchInit ==
    /\ \E n \in 0..MaxSnapshot :
         /\ documents = [k \in 1..n |-> SnapshotText(k)]
         /\ metadata = [k \in 1..n |-> SnapshotMeta(k)]
         /\ embeddings \in [1..n -> SearchVectors]
    /\ kb_state = "Ready"
    /\ similarity_threshold \in Thresholds
    /\ sr_pc = "call"
    /\ sr_query \in SearchVectors
    /\ sr_top_k \in 0..MaxTopK
    /\ sr_raises \in BOOLEAN
    /\ sr_outcome = "none"
    /\ sr_calls = 0
    /\ sr_result = <<>>
    /\ dir = EmptyDir
    /\ chunk_size = 1
    /\ chunk_overlap = 0
    /\ clock = 0
    /\ steps = 0
    /\ cache \in {NoCache, Pickled(documents, embeddings, metadata,
                                    get_file_signatures(EmptyDir))}
    /\ current_files = <<>>
    /\ last = NoOp
    /\ dir_changed = FALSE
    /\ last_write = "none"
    /\ write_failed = FALSE
    /\ persisted = NoCache
    /\ persisted_by = "none"
    /\ CkIdle
    /\ EmIdle
    /\ MuIdle

\* lines 193-228: search runs and returns
SearchReturn ==
    /\ sr_pc = "call"
    /\ \E r \in {search(documents, embeddings, metadata, sr_raises, sr_query,
                         similarity_threshold, sr_top_k)} :
          /\ sr_outcome' = r.outcome
          /\ sr_calls' = r.calls
          /\ sr_result' = r.result
    /\ sr_pc' = "return"
    /\ documents' = ListsAfterSearch(documents, embeddings, metadata).documents
    /\ embeddings' = ListsAfterSearch(documents, embeddings, metadata).embeddings
    /\ metadata' = ListsAfterSearch(documents, embeddings, metadata).metadata
    /\ UNCHANGED <<dir, clock, steps, cache, kb_state, chunk_size, chunk_overlap,
                   current_files, last, dir_changed, last_write, write_failed,
                   persisted, persisted_by>>
    /\ UNCHANGED <<similarity_threshold, sr_query, sr_top_k, sr_raises, ck_vars,
                   em_vars, mu_vars>>

SearchNext == SearchReturn

SpecSearch == SearchInit /\ [][SearchNext]_vars

(***************************************************************************)
(* A search next to a mutation of the same instance, statement by          *)
(* statement: add_document (lines 246-255) or the rebuild of a Reload      *)
(* (lines 93-115, 64-75) runs in one thread and search (lines 193-228) in  *)
(* another.  The interpreter can switch threads between any two            *)
(* statements; the code takes no lock.                                     *)
(***************************************************************************)
\* most chunks the instance holds when the two calls begin
MaxRaceDocs == 2

\* a variant in which search waits while a mutation is between its first
\* and its last statement
SearchWaitsForMutation(at) == at \in {"start", "done"}

\* whether the next statement of search can run while the mutation is at
\* statement at: search takes no lock and checks no flag (lines 193-228)
SearchAdmitted(at) == TRUE

\* lines 221-226 raise IndexError: an index taken from self.embeddings is
\* beyond the end of self.documents or of self.metadata
RankingRaises(docs, embs, metas, query_embedding, threshold, top_k) ==
    \E pairs \in {Qualifying(embs, query_embedding, threshold)} :
    \E similarities \in {SortDescending(pairs)} :
    \E top \in {TopK(similarities, top_k)} :
    \E k \in 1..Len(top) : top[k].idx > Len(docs) \/ top[k].idx > Len(metas)

\* vectors of the chunks held before the two calls
RaceVectors == {VectorOf(1, 0), VectorOf(1, 1)}

RaceInit ==
    /\ \E n \in 0..MaxRaceDocs :
         /\ documents = [k \in 1..n |-> SnapshotText(k)]
         /\ metadata = [k \in 1..n |-> SnapshotMeta(k)]
         /\ embeddings \in [1..n -> RaceVectors]
    /\ dir = WithFile(EmptyDir, "notes.txt", <<"a", "\n", "b", " ">>, 0)
    /\ chunk_size = 2
    /\ chunk_overlap = 1
    /\ mu_op \in {"add", "rebuild"}
    /\ mu_pc = "start"
    /\ mu_todo = <<>>
    /\ sr_seen = NotSeen
    /\ kb_state = IF mu_op = "add" THEN "Ready" ELSE "Rebuilding"
    /\ current_files = IF mu_op = "add" THEN <<>> ELSE get_file_signatures(dir)
    /\ cache = NoCache
    /\ clock = 0
    /\ steps = 0
    /\ last = NoOp
    /\ dir_changed = FALSE
    /\ last_write = "none"
    /\ write_failed = FALSE
    /\ persisted = NoCache
    /\ persisted_by = "none"
    /\ similarity_threshold \in Thresholds
    /\ sr_pc = "call"
    /\ sr_query \in {VectorOf(1, 0), VectorOf(1, 1)}
    /\ sr_top_k = route_top_k
    /\ sr_raises \in BOOLEAN
    /\ sr_outcome = "none"
    /\ sr_calls = 0
    /\ sr_result = <<>>
    /\ CkIdle
    /\ EmIdle

\* what a statement of the mutation leaves alone
MuFrame ==
    UNCHANGED <<dir, clock, steps, chunk_size, chunk_overlap, last, dir_changed,
                last_write, write_failed, persisted, persisted_by, mu_op, sr_seen,
                ck_vars, em_vars, sr_vars>>

\* the statement after the last append of an entry
AfterAppends == IF mu_op = "add" THEN "save" ELSE "embed"

\* lines 246-247 of add_document, lines 93-98 of _process_all_documents:
\* the entries to append are computed; no list of the instance changes
MuBegin ==
    /\ mu_pc = "start"
    /\ \/ /\ mu_op = "add"
          /\ \E content \in AddContents :
              \E chunks \in {chunk_text(content, chunk_size, chunk_overlap)} :
              \E failing \in SUBSET BatchIndexes(Len(chunks)) :
              \E vectors \in {generate_embeddings(chunks, failing)} :
                mu_todo' = [k \in 1..Min(Len(chunks), Len(vectors)) |->
                              [chunk |-> chunks[k], vector |-> vectors[k],
                               meta |-> ManualMeta]]
       \/ /\ mu_op = "rebuild"
          /\ \E order \in Orders(dir), failed \in SUBSET SupportedIn(dir) :
              \E entries \in {ScanEntries(dir, order, failed, chunk_size,
                                          chunk_overlap)} :
                mu_todo' = [k \in 1..Len(entries) |->
                              [chunk |-> entries[k].chunk, vector |-> ZeroVector,
                               meta |-> entries[k].meta]]
    /\ mu_pc' = IF mu_todo' = <<>> THEN AfterAppends ELSE "documents"
    /\ UNCHANGED <<documents, embeddings, metadata, cache, kb_state, current_files>>
    /\ MuFrame

\* line 250, line 101: self.documents.append(chunk)
MuAppendDocument ==
    /\ mu_pc = "documents"
    /\ documents' = Append(documents, Head(mu_todo).chunk)
    /\ mu_pc' = IF mu_op = "add" THEN "embeddings" ELSE "metadata"
    /\ UNCHANGED <<embeddings, metadata, cache, kb_state, current_files, mu_todo>>
    /\ MuFrame

\* line 251: self.embeddings.append(embedding)
MuAppendEmbedding ==
    /\ mu_pc = "embeddings"
    /\ embeddings' = Append(embeddings, Head(mu_todo).vector)
    /\ mu_pc' = "metadata"
    /\ UNCHANGED <<documents, metadata, cache, kb_state, current_files, mu_todo>>
    /\ MuFrame

\* line 252, lines 102-106: self.metadata.append(...), then the next entry
MuAppendMetadata ==
    /\ mu_pc = "metadata"
    /\ metadata' = Append(metadata, Head(mu_todo).meta)
    /\ mu_todo' = Tail(mu_todo)
    /\ mu_pc' = IF Tail(mu_todo) = <<>> THEN AfterAppends ELSE "documents"
    /\ UNCHANGED <<documents, embeddings, cache, kb_state, current_files>>
    /\ MuFrame

\* lines 113-115: every held document is embedded and self.embeddings is
\* assigned
MuEmbedAll ==
    /\ mu_pc = "embed"
    /\ \E failing \in SUBSET BatchIndexes(Len(documents)) :
         embeddings' = IF documents # <<>>
                       THEN generate_embeddings(documents, failing)
                       ELSE embeddings
    /\ mu_pc' = "save"
    /\ UNCHANGED <<documents, metadata, cache, kb_state, current_files, mu_todo>>
    /\ MuFrame

\* line 255 (_save_cache), lines 64-75: the lists are written to the
\* artifact and the call returns
MuSave ==
    /\ mu_pc = "save"
    /\ \E write \in WriteOutcomes :
         cache' = IF mu_op = "add"
                  THEN save_cache(cache, Lists(documents, embeddings, metadata), dir, write)
                  ELSE CacheAfterWrite(cache,
                           Pickled(documents, embeddings, metadata, current_files),
                           write)
    /\ mu_pc' = "done"
    /\ kb_state' = "Ready"
    /\ current_files' = <<>>
    /\ UNCHANGED <<documents, embeddings, metadata, mu_todo>>
    /\ MuFrame

\* what a statement of search leaves alone
RaceSearchFrame ==
    UNCHANGED <<kb_vars, ck_vars, em_vars, similarity_threshold, sr_query, sr_top_k,
                sr_raises, mu_op, mu_pc, mu_todo>>

\* lines 195-207: the emptiness test on self.documents and the service call
\* for the query
RaceSearchBegin ==
    /\ sr_pc = "call"
    /\ SearchAdmitted(mu_pc)
    /\ IF documents = <<>> \/ sr_raises
       THEN /\ sr_pc' = "return"
            /\ sr_outcome' = IF documents = <<>> THEN "empty" ELSE "embed_failed"
       ELSE /\ sr_pc' = "rank"
            /\ sr_outcome' = sr_outcome
    /\ sr_calls' = IF documents = <<>> THEN 0 ELSE 1
    /\ UNCHANGED <<sr_result, sr_seen>>
    /\ RaceSearchFrame

\* lines 209-228: the ranking reads self.embeddings, then self.documents
\* and self.metadata at the indexes it kept
RaceSearchRank ==
    /\ sr_pc = "rank"
    /\ SearchAdmitted(mu_pc)
    /\ sr_seen' = [documents |-> Len(documents), embeddings |-> Len(embeddings),
                   metadata |-> Len(metadata), at |-> mu_pc]
    /\ \E raises \in {RankingRaises(documents, embeddings, metadata, sr_query,
                                     similarity_threshold, sr_top_k)} :
         IF raises
         THEN /\ sr_outcome' = "index_error"
              /\ sr_result' = <<>>
         ELSE /\ sr_outcome' = "ranked"
              /\ \E result \in {search_ranked(documents, embeddings, metadata,
                                               sr_query, similarity_threshold,
                                               sr_top_k)} :
                   sr_result' = result
    /\ sr_pc' = "return"
    /\ sr_calls' = sr_calls
    /\ RaceSearchFrame

RaceNext ==
    \/ MuBegin
    \/ MuAppendDocument
    \/ MuAppendEmbedding
    \/ MuAppendMetadata
    \/ MuEmbedAll
    \/ MuSave
    \/ RaceSearchBegin
    \/ RaceSearchRank

SpecRace == RaceInit /\ [][RaceNext]_vars

(***************************************************************************)
(* Properties of the knowledge base (specification Spec).                  *)
(***************************************************************************)
\* the three lists, as one value
Snapshot == Lists(documents, embeddings, metadata)

\* the documents whose metadata entry is meta, in list order
RECURSIVE ChunksWithMeta(_, _, _)
ChunksWithMeta(docs, metas, meta) ==
    IF docs = <<>> \/ metas = <<>> THEN <<>>
    ELSE (IF Head(metas) = meta THEN <<Head(docs)>> ELSE <<>>)
         \o ChunksWithMeta(Tail(docs), Tail(metas), meta)

\* C1: whenever construction, load_knowledge_base or add_document has
\* returned, for every pattern of embedding, extraction and cache-write
\* failures, the three lists have the same length.
C1_IndexAlignment ==
    Idle => /\ Len(documents) = Len(embeddings)
            /\ Len(embeddings) = Len(metadata)

\* a rebuild has returned whose cache write failed, with one embedding batch
\* failed and another one answered
C1_Witness ==
    /\ kb_state = "Ready"
    /\ last.path = "miss"
    /\ last.write # "ok"
    /\ Len(documents) > batch_size
    /\ \E i, j \in 1..Len(embeddings) :
         embeddings[i] = ZeroVector /\ embeddings[j] # ZeroVector

\* C2: when load_knowledge_base has returned by the cache-miss path, the
\* lists hold exactly the chunks of the supported files now in the directory,
\* each file's chunks once (none for a file whose extraction or chunking
\* raised), and nothing else.
C2_RebuildReflectsDirectory ==
    (kb_state = "Ready" /\ last.op \in {"init", "reload"} /\ last.path = "miss") =>
        /\ Len(documents) = Len(metadata)
        /\ \A k \in 1..Len(metadata) :
             \E p \in SupportedIn(dir) : metadata[k] = FileMetadata(p)
        /\ \A p \in SupportedIn(dir) :
             ChunksWithMeta(documents, metadata, FileMetadata(p))
               \in {<<>>} \cup (IF chunk_text_raises(chunk_size, chunk_overlap)
                                THEN {}
                                ELSE {chunk_text(dir[p].text, chunk_size, chunk_overlap)})

\* C3: the step of load_knowledge_base that checks the cache takes the hit
\* path (lists replaced by the cached ones, return, no extraction, no
\* embedding call, artifact untouched) exactly when the artifact exists, is
\* read without error and stores the signature map of the directory as it is;
\* otherwise it goes on to the rebuild.
C3_CacheValidity ==
    [][kb_state = "Loading" =>
         IF /\ cache.state = "ok"
            /\ last'.read_ok
            /\ cache.file_signatures = get_file_signatures(dir)
         THEN /\ kb_state' = "Ready"
              /\ last'.path = "hit"
              /\ last'.calls = 0
              /\ documents' = cache.documents
              /\ embeddings' = cache.embeddings
              /\ metadata' = cache.metadata
              /\ cache' = cache
         ELSE /\ kb_state' = "Rebuilding"
              /\ last'.path = "miss"]_vars

\* a cold start has returned by the cache-hit path with a cached Snapshot
C3_Witness ==
    /\ kb_state = "Ready"
    /\ last.op = "init"
    /\ last.path = "hit"
    /\ documents # <<>>
    /\ Snapshot = Lists(cache.documents, cache.embeddings, cache.metadata)

HoldsPersisted(docs, embs, metas) ==
    /\ docs = persisted.documents
    /\ embs = persisted.embeddings
    /\ metas = persisted.metadata

C6_AddDocumentAppendOnly ==
    [][(steps' # steps /\ last'.op = "add" /\ ~last'.raised) =>
         LET chunks == chunk_text(last'.content, chunk_size, chunk_overlap)
             k == Len(chunks)
         IN  /\ documents' = documents \o chunks
             /\ metadata' = metadata \o [i \in 1..k |-> ManualMeta]
             /\ Len(embeddings') = Len(embeddings) + k
             /\ SubSeq(embeddings', 1, Len(embeddings)) = embeddings]_vars

\* add_document has returned after appending the two chunks of "x  y" to a
\* Snapshot that held chunks of a file
C6_Witness ==
    /\ kb_state = "Ready"
    /\ last.op = "add"
    /\ ~last.raised
    /\ Len(chunk_text(last.content, chunk_size, chunk_overlap)) = 2
    /\ Len(documents) = Len(chunk_text(last.content, chunk_size, chunk_overlap)) + 1
    /\ metadata[1] # ManualMeta
    /\ metadata[Len(metadata)] = ManualMeta

\* C16: a load or an add_document whose cache write fails returns without
\* raising, the instance is Ready, and its three lists are the ones the
\* operation had computed before the write, which are the lists it is left
\* with when the write succeeds; they are what a later search reads.
C16_CacheWriteFailureNonFatal ==
    last.write # "none" =>
        /\ last.op \in {"init", "reload", "add"}
        /\ kb_state = "Ready"
        /\ ~last.raised
        /\ Snapshot = last.computed

\* a rebuild and an add_document have come back Ready with new chunks in
\* the lists although the write of the artifact failed
C16_Witness ==
    /\ kb_state = "Ready"
    /\ last.write \in {"fail_keep", "fail_truncate"}
    /\ write_failed
    /\ cache.state # "ok"
    /\ documents # <<>>
    /\ \E k \in 1..Len(embeddings) : embeddings[k] # ZeroVector

\* the step is the cache check of a cold start made after an instance whose
\* latest cache write failed
ColdStartAfterFailedWrite ==
    /\ kb_state = "Loading"
    /\ kb_state' # "Loading"
    /\ last.op = "init"
    /\ last.prior_write \in {"fail_keep", "fail_truncate"}

\* C17 (as stated): when the latest cache write of an instance failed, the
\* next cold start takes the rebuild path and never the cache-hit path, also
\* when an older artifact is still present.
C17_FailedWriteForcesRebuild ==
    [][ColdStartAfterFailedWrite =>
         /\ last'.path = "miss"
         /\ kb_state' = "Rebuilding"]_vars

\* C17 (amended): when the latest cache write of an instance failed, the next
\* cold start takes the rebuild path, except when an older artifact written
\* before the failure is still present and readable and its stored
\* signatures equal the directory's current ones: then it takes the
\* cache-hit path, calls no embedding service and loads the lists of that
\* older artifact.
C17_FailedWriteRebuildsUnlessOlderArtifactFresh ==
    [][ColdStartAfterFailedWrite =>
         IF /\ cache.state = "ok"
            /\ last'.read_ok
            /\ cache.file_signatures = get_file_signatures(dir)
         THEN /\ last'.path = "hit"
              /\ kb_state' = "Ready"
              /\ last'.calls = 0
              /\ cache = persisted
              /\ HoldsPersisted(documents', embeddings', metadata')
         ELSE /\ last'.path = "miss"
              /\ kb_state' = "Rebuilding"]_vars

\* a cold start made after an add_document or a rebuild whose write left
\* the older artifact in place has come back by the cache-hit path
C17_Witness ==
    /\ kb_state = "Ready"
    /\ last.op = "init"
    /\ last.prior_write = "fail_keep"
    /\ last.path = "hit"
    /\ documents # <<>>

\* the states of an instance
LifecycleStates == {"Uninitialized", "Loading", "Rebuilding", "Ready"}

\* a load is under way
Loading == kb_state \in {"Loading", "Rebuilding"}

\* the moves of an instance between its states
LifecycleStep ==
    /\ kb_state' \in LifecycleStates
    \* Initialize and Reload enter Loading, and nothing else does
    /\ (steps' # steps /\ last'.op \in {"init", "reload"}) =>
           /\ kb_state \in {"Uninitialized", "Ready"}
           /\ kb_state' = "Loading"
    /\ (kb_state' = "Loading" /\ kb_state # "Loading") =>
           (steps' # steps /\ last'.op \in {"init", "reload"})
    \* Loading is left by the hit path to Ready or by the miss path to
    \* Rebuilding, and Rebuilding is left to Ready
    /\ (kb_state = "Loading" /\ kb_state' # "Loading") =>
           \/ kb_state' = "Ready" /\ last'.path = "hit"
           \/ kb_state' = "Rebuilding" /\ last'.path = "miss"
    /\ (kb_state = "Rebuilding" /\ kb_state' # "Rebuilding") =>
           (kb_state' = "Ready" /\ last'.path = "miss")
    /\ (kb_state' = "Rebuilding" /\ kb_state # "Rebuilding") => kb_state = "Loading"
    /\ (kb_state' = "Ready" /\ kb_state # "Ready") => Loading
    \* add_document and search start in Ready and end in Ready
    /\ (steps' # steps /\ last'.op \in {"add", "search"}) =>
           (kb_state = "Ready" /\ kb_state' = "Ready")

\* no state is terminal: a load under way can take its next step, and a
\* Ready instance accepts a search and an add_document
NoTerminalState ==
    /\ kb_state = "Loading" => ENABLED CheckCache
    /\ kb_state = "Rebuilding" => ENABLED Rebuild
    /\ (kb_state = "Ready" /\ steps < MaxSteps) =>
           /\ ENABLED Search
           /\ ENABLED (AddDocument \/ AddDocumentRaises)

\* C18: every Initialize and every Reload passes through Loading and then
\* goes to Ready by the hit path or to Rebuilding and on to Ready by the miss
\* path, and every load under way eventually reaches Ready, whatever fails
\* of the cache read, the extractions, the embedding batches and the cache
\* write; add_document and search start and end in Ready; no state is
\* terminal.
C18_Lifecycle ==
    /\ [][LifecycleStep]_vars
    /\ []NoTerminalState
    /\ Loading ~> (kb_state = "Ready")

\* a Reload has come back Ready by the miss path after a cache read that
\* failed, an embedding batch that failed and a cache write that failed
C18_Witness ==
    /\ kb_state = "Ready"
    /\ last.op = "reload"
    /\ last.path = "miss"
    /\ ~last.read_ok
    /\ last.write = "fail_truncate"
    /\ \E k \in 1..Len(embeddings) : embeddings[k] = ZeroVector

\* C10: an instance configured with chunk_overlap >= chunk_size fails at
\* construction: it never scans, extracts or chunks a file, never becomes
\* Ready and no cache artifact is produced.
C10_ConfigFailFast ==
    chunk_overlap >= chunk_size =>
        /\ kb_state \notin {"Rebuilding", "Ready"}
        /\ cache.state = "absent"

(***************************************************************************)
(* Properties of the chunker (specification SpecChunk).                    *)
(***************************************************************************)
\* ceil(a / b) for a >= 0, b > 0
Ceil(a, b) == (a + b - 1) \div b
Max(a, b) == IF a >= b THEN a ELSE b

\* the chunker has returned under a configuration with 0 <= overlap < size
ChunkerReturned == ck_pc = "return" /\ ck_overlap < ck_size

\* number of words of the text given to the chunker
WordsIn == Len(Split(ck_text))

\* number of words of a chunk
WordCount(chunk) == Len(Split(chunk))

\* the word index (from 0) at which the window of chunk k (from 1) starts
StartOf(k) == (k - 1) * (ck_size - ck_overlap)

\* "alpha beta", "beta gamma", "gamma delta", "delta"
AlphaBeta == <<"a","l","p","h","a"," ","b","e","t","a">>
BetaGamma == <<"b","e","t","a"," ","g","a","m","m","a">>
GammaDelta == <<"g","a","m","m","a"," ","d","e","l","t","a">>
Delta == <<"d","e","l","t","a">>

\* C7 as stated: for n words and 0 <= o < c the chunker returns
\* ceil(max(n - o, 0) / (c - o)) chunks (0 for n = 0); "alpha beta gamma
\* delta" with c = 2, o = 1 gives "alpha beta", "beta gamma", "gamma delta".
C7_ChunkCount ==
    ChunkerReturned =>
        /\ Len(ck_chunks) = IF WordsIn = 0 THEN 0
                            ELSE Ceil(Max(WordsIn - ck_overlap, 0), ck_size - ck_overlap)
        /\ (ck_text = NotesText /\ ck_size = 2 /\ ck_overlap = 1) =>
               ck_chunks = <<AlphaBeta, BetaGamma, GammaDelta>>

\* C7 amended: the chunker returns ceil(n / (c - o)) chunks, one per window
\* start below n; "alpha beta gamma delta" with c = 2, o = 1 gives the four
\* chunks "alpha beta", "beta gamma", "gamma delta", "delta".
C7_ChunkCountPerWindowStart ==
    ChunkerReturned =>
        /\ Len(ck_chunks) = Ceil(WordsIn, ck_size - ck_overlap)
        /\ (ck_text = NotesText /\ ck_size = 2 /\ ck_overlap = 1) =>
               ck_chunks = <<AlphaBeta, BetaGamma, GammaDelta, Delta>>

\* the chunker has returned for "alpha beta gamma delta" with c = 2, o = 1
C7_Witness ==
    /\ ChunkerReturned
    /\ ck_text = NotesText
    /\ ck_size = 2
    /\ ck_overlap = 1
    /\ Len(ck_chunks) = 4

\* C8 as stated: every chunk except possibly the last has exactly c words.
C8_ChunkWidth ==
    ChunkerReturned =>
        \A k \in 1..(Len(ck_chunks) - 1) : WordCount(ck_chunks[k]) = ck_size

\* C8 amended: a chunk whose window lies within the text (start + c <= n) has
\* exactly c words; every later chunk has the n - start < c words that are
\* left, and there can be several of those when o > 0.
C8_ChunkWidthOfFullWindows ==
    ChunkerReturned =>
        \A k \in 1..Len(ck_chunks) :
            WordCount(ck_chunks[k]) =
                IF StartOf(k) + ck_size <= WordsIn THEN ck_size
                ELSE WordsIn - StartOf(k)

\* the chunker has returned a list in which a chunk that is not the last one
\* is narrower than c
C8_Witness ==
    /\ ChunkerReturned
    /\ \E k \in 1..(Len(ck_chunks) - 1) :
         /\ WordCount(ck_chunks[k]) < ck_size
         /\ WordCount(ck_chunks[k]) > WordCount(ck_chunks[k + 1])

\* the last m words of chunk a are the first m words of chunk b
SharesWords(a, b, m) ==
    /\ m <= WordCount(a)
    /\ m <= WordCount(b)
    /\ SubSeq(Split(a), WordCount(a) - m + 1, WordCount(a)) = SubSeq(Split(b), 1, m)

\* number of word positions of the text that chunks k and k + 1 both cover
OverlapAt(k) == StartOf(k) + WordCount(ck_chunks[k]) - StartOf(k + 1)

\* C9 as stated: every two consecutive chunks overlap by exactly o words:
\* the last o words of the one are the first o words of the next, and these
\* are all the positions they share.
C9_ChunkOverlap ==
    ChunkerReturned =>
        \A k \in 1..(Len(ck_chunks) - 1) :
            /\ OverlapAt(k) = ck_overlap
            /\ SharesWords(ck_chunks[k], ck_chunks[k + 1], ck_overlap)

\* C9 amended: consecutive chunks k, k + 1 share exactly the last
\* |chunk k| - (c - o) words of chunk k, which are the first words of chunk
\* k + 1: o words when chunk k has c words, fewer when chunk k is a narrower
\* chunk of the tail.
C9_ChunkOverlapOfFullWindows ==
    ChunkerReturned =>
        \A k \in 1..(Len(ck_chunks) - 1) :
            LET shared == WordCount(ck_chunks[k]) - (ck_size - ck_overlap)
            IN  /\ OverlapAt(k) = shared
                /\ shared = IF WordCount(ck_chunks[k]) = ck_size THEN ck_overlap
                            ELSE WordsIn - StartOf(k + 1)
                /\ shared <= ck_overlap
                /\ SharesWords(ck_chunks[k], ck_chunks[k + 1], shared)

\* the chunker has returned a list with a pair of full-width neighbours that
\* share o >= 1 words and a pair that shares fewer
C9_Witness ==
    /\ ChunkerReturned
    /\ ck_overlap >= 1
    /\ \E k, m \in 1..(Len(ck_chunks) - 1) :
         /\ WordCount(ck_chunks[k]) = ck_size
         /\ OverlapAt(k) = ck_overlap
         /\ OverlapAt(m) < ck_overlap

(***************************************************************************)
(* Properties of the embedding client (specification SpecEmbed).           *)
(***************************************************************************)
\* the batch (numbered from 0) that holds text j (numbered from 1)
BatchOf(j) == (j - 1) \div batch_size

\* C11: _generate_embeddings returns, for every list of texts and every set
\* of failing batches, one vector per text: the vector the service gave for
\* text j when the batch of j was answered, the all-zero vector when it
\* raised; the texts of the batches after a failed one get their vectors
\* too, and the call returns.
C11_BulkEmbeddingPerBatch ==
    /\ em_pc \in {"call", "return"}
    /\ em_pc = "return" =>
         /\ Len(em_vectors) = Len(em_texts)
         /\ \A j \in 1..Len(em_texts) :
              em_vectors[j] = IF BatchOf(j) \in em_failing
                              THEN [i \in 1..EmbeddingDim |-> 0]
                              ELSE ServiceVector(em_texts[j])

\* a call has returned in which a batch raised and a later batch, and the
\* last, shorter one, were answered
C11_Witness ==
    /\ em_pc = "return"
    /\ Len(em_texts) = 2 * batch_size + 1
    /\ em_failing = {0}
    /\ em_vectors[1] = ZeroVector
    /\ em_vectors[Len(em_texts)] = ServiceVector(em_texts[Len(em_texts)])

\* C19: for a text of n words and 0 <= o < c the chunker returns, in order,
\* exactly one chunk for each window start s = 0, (c-o), 2(c-o), ... below n,
\* the chunk being the words s .. min(s+c, n)-1 joined by single spaces; every
\* chunk is non-empty, a tail window narrower than c is emitted in full, and
\* an empty or all-whitespace text yields zero chunks.
C19_SlidingWindowChunking ==
    ChunkerReturned =>
        LET words  == Split(ck_text)
            n      == Len(words)
            starts == {s \in 0..(n - 1) : s % (ck_size - ck_overlap) = 0}
        IN  /\ Len(ck_chunks) = Cardinality(starts)
            /\ \A k \in 1..Len(ck_chunks) :
                 LET window == SubSeq(words, StartOf(k) + 1,
                                      Min(StartOf(k) + ck_size, n))
                 IN  /\ StartOf(k) \in starts
                     /\ ck_chunks[k] # <<>>
                     /\ Split(ck_chunks[k]) = window
                     /\ ck_chunks[k] = Join(window)
            /\ (\A j \in 1..Len(ck_text) : ck_text[j] \in Whitespace) =>
                   ck_chunks = <<>>

\* the chunker has returned three chunks for a text of three words with
\* whitespace runs between them, the last chunk being a tail of one word
C19_Witness ==
    /\ ChunkerReturned
    /\ ck_size = 2
    /\ ck_overlap = 1
    /\ WordsIn = 3
    /\ Len(ck_text) = MaxTextLen
    /\ Len(ck_chunks) = 3
    /\ WordCount(ck_chunks[3]) = 1

(***************************************************************************)
(* Properties of search (specification SpecSearch).                        *)
(***************************************************************************)
\* search has returned
SearchReturned == sr_pc = "return"

\* the similarity of chunk i of the Snapshot to the query
SimilarityOf(i) == cosine_similarity(sr_query, embeddings[i])

\* C12: the list search returns is sorted by non-increasing score, has at
\* most top_k entries, and every score in it is at least the threshold.
C12_SearchResultShape ==
    SearchReturned =>
        /\ Len(sr_result) <= sr_top_k
        /\ \A k \in 1..(Len(sr_result) - 1) :
             Geq(sr_result[k].score, sr_result[k + 1].score)
        /\ \A k \in 1..Len(sr_result) :
             Geq(sr_result[k].score, similarity_threshold)

\* a search has returned top_k = 2 entries of strictly decreasing score from
\* a Snapshot whose first chunk is below the threshold and whose higher
\* score comes later in the Snapshot than the lower one
C12_Witness ==
    /\ SearchReturned
    /\ sr_top_k = 2
    /\ Len(sr_result) = 2
    /\ Gt(sr_result[1].score, sr_result[2].score)
    /\ Len(documents) = 3
    /\ ~Geq(SimilarityOf(1), similarity_threshold)
    /\ Gt(SimilarityOf(3), SimilarityOf(2))

\* C13: a search of a Snapshot with zero chunks returns the empty list and
\* calls the embedding service not at all.
C13_SearchEmptySnapshot ==
    (SearchReturned /\ documents = <<>>) =>
        /\ sr_result = <<>>
        /\ sr_calls = 0

\* a search of an empty Snapshot has returned, the service being down
C13_Witness ==
    /\ SearchReturned
    /\ documents = <<>>
    /\ sr_raises
    /\ sr_outcome = "empty"

\* C14: a search of a non-empty Snapshot whose service call for the query
\* raises returns (it does not raise), and returns the empty list.
C14_SearchEmbeddingFailure ==
    /\ sr_pc \in {"call", "return"}
    /\ (SearchReturned /\ documents # <<>> /\ sr_raises) =>
         /\ sr_outcome = "embed_failed"
         /\ sr_result = <<>>

\* such a search has returned, over a Snapshot and a threshold for which a
\* ranking against the zero vector would have returned chunks
C14_Witness ==
    /\ SearchReturned
    /\ documents # <<>>
    /\ sr_raises
    /\ sr_result = <<>>
    /\ sr_top_k > 0
    /\ Geq(ZeroSimilarity, similarity_threshold)

\* the Snapshot index of an entry of the result (the texts of a Snapshot of
\* SearchInit differ from each other)
IndexOfEntry(entry) ==
    CHOOSE i \in 1..Len(documents) : documents[i] = entry.text

\* the entry stands for a chunk whose vector is the all-zero vector
IsZeroVectorChunk(entry) == embeddings[IndexOfEntry(entry)] = ZeroVector

\* C15 (as stated): in every search result, for every configured threshold,
\* a chunk with an all-zero vector never appears before a chunk whose
\* similarity to the query is nonzero.
C15_ZeroVectorChunksRankLast ==
    SearchReturned =>
        \A j \in 1..Len(sr_result) : \A k \in (j + 1)..Len(sr_result) :
            ~(IsZeroVectorChunk(sr_result[j]) /\ sr_result[k].score.num # 0)

\* C15 (amended): in every search result, for every configured threshold, a
\* chunk with an all-zero vector never appears before a chunk whose
\* similarity to the query is greater than zero.
C15_ZeroVectorChunksBelowPositive ==
    SearchReturned =>
        \A j \in 1..Len(sr_result) : \A k \in (j + 1)..Len(sr_result) :
            ~(IsZeroVectorChunk(sr_result[j]) /\ sr_result[k].score.num > 0)

\* a search has returned a chunk of positive similarity and, behind it, a
\* chunk with an all-zero vector that precedes it in the Snapshot
C15_Witness ==
    /\ SearchReturned
    /\ \E j \in 1..Len(sr_result) : \E k \in (j + 1)..Len(sr_result) :
         /\ sr_result[j].score.num > 0
         /\ IsZeroVectorChunk(sr_result[k])
         /\ IndexOfEntry(sr_result[k]) < IndexOfEntry(sr_result[j])

\* the Snapshot indexes of the chunks whose similarity to the query meets the
\* threshold
QualifyingChunks ==
    {i \in 1..Len(documents) : Geq(SimilarityOf(i), similarity_threshold)}

\* the Snapshot indexes of the chunks in the result
ReturnedChunks == {IndexOfEntry(sr_result[k]) : k \in 1..Len(sr_result)}

\* the search ranked the Snapshot: the query got its embedding, or there was
\* nothing to rank
SearchRanked == SearchReturned /\ (documents = <<>> \/ ~sr_raises)

\* C20: the result of search is the first top_k entries of the list of all
\* qualifying chunks in descending order of similarity: it has
\* min(top_k, number of qualifying chunks) entries, each a different
\* qualifying chunk with its own text, metadata and similarity, in
\* non-increasing order of score, and every qualifying chunk left out has a
\* similarity at most that of every returned chunk.
C20_SearchCompleteness ==
    SearchRanked =>
        /\ Len(sr_result) = Min(sr_top_k, Cardinality(QualifyingChunks))
        /\ Cardinality(ReturnedChunks) = Len(sr_result)
        /\ ReturnedChunks \subseteq QualifyingChunks
        /\ \A k \in 1..Len(sr_result) :
             LET i == IndexOfEntry(sr_result[k])
             IN  /\ sr_result[k].text = documents[i]
                 /\ sr_result[k].meta = metadata[i]
                 /\ Same(sr_result[k].score, SimilarityOf(i))
        /\ \A k \in 1..(Len(sr_result) - 1) :
             Geq(sr_result[k].score, sr_result[k + 1].score)
        /\ \A i \in QualifyingChunks \ ReturnedChunks :
             \A k \in 1..Len(sr_result) :
                 Geq(sr_result[k].score, SimilarityOf(i))

\* a search has returned top_k chunks and left out a qualifying chunk of
\* smaller similarity that stands earlier in the Snapshot than a returned one
C20_Witness ==
    /\ SearchRanked
    /\ sr_top_k > 0
    /\ Len(sr_result) = sr_top_k
    /\ \E i \in QualifyingChunks \ ReturnedChunks : \E k \in 1..Len(sr_result) :
         /\ i < IndexOfEntry(sr_result[k])
         /\ Gt(sr_result[k].score, SimilarityOf(i))

\* C21: of two chunks of equal similarity that are both in a search result
\* the one with the smaller Snapshot index comes first, and a qualifying
\* chunk that top_k cut off has a larger index than every returned chunk of
\* the same similarity.
C21_TieBreaking ==
    SearchRanked =>
        /\ \A j \in 1..Len(sr_result) : \A k \in (j + 1)..Len(sr_result) :
             Same(sr_result[j].score, sr_result[k].score) =>
                 IndexOfEntry(sr_result[j]) < IndexOfEntry(sr_result[k])
        /\ \A i \in QualifyingChunks \ ReturnedChunks :
             \A k \in 1..Len(sr_result) :
                 Same(sr_result[k].score, SimilarityOf(i)) =>
                     IndexOfEntry(sr_result[k]) < i

\* a search has returned two chunks of equal similarity and left out a
\* third one of the same similarity
C21_Witness ==
    /\ SearchRanked
    /\ Len(sr_result) = 2
    /\ Same(sr_result[1].score, sr_result[2].score)
    /\ \E i \in QualifyingChunks \ ReturnedChunks :
         Same(sr_result[2].score, SimilarityOf(i))

\* C26: for every outcome of search (empty Snapshot, failed embedding of the
\* query, no match, matches returned) the documents, embeddings and metadata
\* lists and the cache artifact are the same after the call as before it.
C26_SearchReadOnly ==
    [][(sr_pc = "call" /\ sr_pc' = "return") =>
         /\ sr_outcome' \in {"empty", "embed_failed", "ranked"}
         /\ documents' = documents
         /\ embeddings' = embeddings
         /\ metadata' = metadata
         /\ cache' = cache]_vars

\* a search over a cached Snapshot has returned two chunks in another order
\* than the Snapshot holds them, and the artifact still holds the lists
C26_Witness ==
    /\ SearchReturned
    /\ sr_outcome = "ranked"
    /\ Len(sr_result) = 2
    /\ IndexOfEntry(sr_result[2]) < IndexOfEntry(sr_result[1])
    /\ cache.state = "ok"
    /\ cache.embeddings = embeddings

(***************************************************************************)
(* Termination of the chunker (step-by-step specification).                *)
(***************************************************************************)
LoopEnded == ck_pc \in {"return", "raise"}

\* C27: for every text and every integer pair (chunk_size, chunk_overlap),
\* chunk_overlap >= chunk_size included, a call of the chunker ends: every
\* iteration moves i forward from a value below the number of words, so there
\* are at most that many iterations; a call that has not ended always has a
\* next step; and every call reaches a return with the list the chunker
\* computes, or a raise
C27_ChunkingTerminates ==
    /\ [][(ck_pc = "loop" /\ ck_pc' = "loop") =>
            (ck_i < Len(LoopWords) /\ ck_i' > ck_i)]_vars
    /\ [](~LoopEnded => ENABLED LoopNext)
    /\ [](ck_pc = "return" => ck_chunks = chunk_text(ck_text, ck_size, ck_overlap))
    /\ <>LoopEnded

\* a call with chunk_overlap > chunk_size on a text with words has returned
C27_Witness ==
    /\ ck_pc = "return"
    /\ ck_overlap > ck_size
    /\ LoopWords # <<>>
    /\ ck_chunks = <<>>

(***************************************************************************)
(* Extraction failures during a rebuild (knowledge-base specification).    *)
(***************************************************************************)
\* a load that took the rebuild path has returned; last.failed holds the
\* files whose extraction raised and last.held the number of documents the
\* instance held when the scan began
RebuildReturned ==
    /\ last.op \in {"init", "reload"}
    /\ last.path = "miss"
    /\ kb_state = "Ready"

\* the chunks the rebuild appended under the metadata of file p, in order
AppendedFor(p) ==
    LET pairs == [k \in 1..(Len(metadata) - last.held) |->
                    [chunk |-> documents[last.held + k],
                     meta  |-> metadata[last.held + k]]]
        named == SelectSeq(pairs, LAMBDA e : e.meta = FileMetadata(p))
    IN  [k \in 1..Len(named) |-> named[k].chunk]

\* C22: when a rebuild has returned, it has not raised; a supported file
\* whose extraction failed has no chunk and no metadata entry among the
\* appended ones; every other supported file of the directory has all the
\* chunks of its text there, in order, each under metadata naming that file
\* (none when the chunker raises on the configuration); and every appended
\* entry names a supported file of the directory
C22_ExtractionFailureLocalized ==
    RebuildReturned =>
        /\ ~last.raised
        /\ Len(documents) = Len(metadata)
        /\ \A p \in SupportedIn(dir) :
             AppendedFor(p) =
                 IF p \in last.failed \/ chunk_text_raises(chunk_size, chunk_overlap)
                 THEN <<>>
                 ELSE chunk_text(dir[p].text, chunk_size, chunk_overlap)
        /\ \A k \in (last.held + 1)..Len(metadata) :
             \E p \in SupportedIn(dir) : metadata[k] = FileMetadata(p)

\* a rebuild in which one file's extraction failed and another file
\* contributed chunks
C22_Witness ==
    /\ RebuildReturned
    /\ \E p \in last.failed : dir[p].text # <<>>
    /\ \E q \in SupportedIn(dir) \ last.failed : Len(AppendedFor(q)) >= 1

(***************************************************************************)
(* Coherence of the cache artifact with the lists in memory.               *)
(***************************************************************************)
\* a cache-hit load, a rebuild or add_document has returned, and the cache
\* write it made, if any, succeeded
MutationReturnedWritten ==
    /\ kb_state = "Ready"
    /\ last.op \in {"init", "reload", "add"}
    /\ ~last.raised
    /\ last.write \in {"none", "ok"}

\* the artifact holds the three lists of the instance
CacheCoherent ==
    /\ cache.state = "ok"
    /\ Lists(cache.documents, cache.embeddings, cache.metadata) = Snapshot

\* a cold start returns; the latest cache write before it was made by
\* add_document and succeeded, and the directory's signatures are the ones
\* that write stored
ColdStartAfterAddReturns ==
    /\ kb_state \in {"Loading", "Rebuilding"}
    /\ last.op = "init"
    /\ last.prior_write = "ok"
    /\ persisted.state = "ok"
    /\ persisted_by = "add"
    /\ persisted.file_signatures = get_file_signatures(dir)
    /\ kb_state' = "Ready"

\* every entry that add_document had put in the persisted lists is in the
\* given lists, at its index
AddedChunksIn(docs, embs, metas) ==
    \A k \in 1..Len(persisted.metadata) :
        persisted.metadata[k] = ManualMeta =>
            /\ k <= Len(docs) /\ k <= Len(embs) /\ k <= Len(metas)
            /\ docs[k] = persisted.documents[k]
            /\ embs[k] = persisted.embeddings[k]
            /\ metas[k] = ManualMeta

ReloadReturned == kb_state = "Ready" /\ last.op = "reload"

\* every chunk of the text of file p is in the lists under metadata naming p
HasChunksOf(p) ==
    LET chunks == chunk_text(dir[p].text, chunk_size, chunk_overlap)
    IN  \A c \in 1..Len(chunks) :
            \E k \in 1..Len(documents) :
                /\ k <= Len(metadata)
                /\ documents[k] = chunks[c]
                /\ metadata[k] = FileMetadata(p)

\* C25: when a Reload has returned, every supported file that was in the
\* directory when it was invoked (the directory does not change during the
\* call) has the chunks of its text in the lists, whatever operations came
\* before; files whose extraction failed in this Reload, and configurations
\* on which the chunker raises, are left aside.
C25_NoFileMissedByReload ==
    (ReloadReturned /\ ~chunk_text_raises(chunk_size, chunk_overlap)) =>
        \A p \in SupportedIn(dir) \ last.failed : HasChunksOf(p)

(***************************************************************************)
(* A search during a mutation (specification SpecRace).                    *)
(***************************************************************************)
\* the three lists have one length
Aligned == Len(documents) = Len(embeddings) /\ Len(embeddings) = Len(metadata)

\* the statements of a mutation between the append of a document and the
\* append of its metadata entry
BetweenAppends == {"embeddings", "metadata"}

\* C24: nothing serializes search with a mutation of the same instance.
\* While add_document or a rebuild is between the append of a document and
\* the append of its metadata entry the three lists have unequal lengths
\* (in add_document, before line 252, embeddings is one longer than
\* metadata); a search that has not returned can take its next statement
\* wherever the mutation is; and a ranking made while the mutation was
\* between those appends read lists of unequal lengths.
C24_NoInternalSerialization ==
    /\ mu_pc \in BetweenAppends => ~Aligned
    /\ (mu_op = "add" /\ mu_pc = "metadata") =>
           (Len(embeddings) = Len(metadata) + 1 /\ Len(documents) = Len(embeddings))
    /\ (mu_op = "rebuild" /\ mu_pc = "metadata") =>
           (Len(documents) = Len(metadata) + 1 /\ Len(embeddings) < Len(documents))
    /\ sr_pc \in {"call", "rank"} => ENABLED (RaceSearchBegin \/ RaceSearchRank)
    /\ sr_seen.at \in BetweenAppends =>
           ~(sr_seen.documents = sr_seen.embeddings /\ sr_seen.embeddings = sr_seen.metadata)

\* a search has ranked during add_document, after the append to embeddings
\* and before the append to metadata, and has returned
C24_Witness ==
    /\ sr_pc = "return"
    /\ sr_outcome \in {"ranked", "index_error"}
    /\ mu_op = "add"
    /\ sr_seen.at = "metadata"
    /\ sr_seen.embeddings = sr_seen.metadata + 1
====
